---------------------------- MODULE Spec2Model ----------------------------
(***************************************************************************)
(* A model of one invocation of get_poi-osm: main() dispatching to         *)
(* PoiOsmClient::queryByCoordinates / queryByAddress, the Nominatim        *)
(* lookup (geocodeAddress_), the Overpass round trip (queryOverpass_),     *)
(* the query builder (buildOverpassQuery_) and the result normalizer       *)
(* (buildResultJson_).                                                     *)
(*                                                                         *)
(* JSON values are tagged records, so that nlohmann::json's typed access   *)
(* (value(), get<std::string>(), implicit conversion) can throw            *)
(* type_error exactly where the library does.  Coordinates are integers    *)
(* in units of 10^-7 degree; text is drawn from small sets of strings.     *)
(***************************************************************************)
EXTENDS Integers, Sequences, FiniteSets, TLC

\* ------------------------------------------------------------------ bounds
\* Longest whitelist given on the command line.
MaxWl == 2
\* Longest "elements" array of an Overpass response.
MaxElems == 2

\* --------------------------------------------------------------- utilities
SeqsUpTo(S, n) == UNION {[1..k -> S] : k \in 0..n}

\* ------------------------------------------------------- JSON value shapes
\* A scalar JSON value: a string or a number (its text kept in s).
JStr(x) == [t |-> "string", s |-> x]
JNum(x) == [t |-> "number", s |-> x]
JNull == [t |-> "null", s |-> ""]
\* A member that is not there.
Absent == [t |-> "absent", s |-> ""]

TagKeys == {"amenity", "shop", "name"}

\* A JSON object over TagKeys: a total map, Absent marking a missing member.
NoTags == [k \in TagKeys |-> Absent]
Tags1(k, v) == [NoTags EXCEPT ![k] = v]
Tags2(k1, v1, k2, v2) == [NoTags EXCEPT ![k1] = v1, ![k2] = v2]

\* The "tags" member of a raw element: an object, absent, or a non-object.
TagsObj(m) == [t |-> "object", m |-> m]
TagsAbsent == [t |-> "absent", m |-> NoTags]
TagsNotObj == [t |-> "string", m |-> NoTags]

\* A numeric member ("lat", "lon"): a number, absent, or a string.
NumField(n) == [t |-> "number", n |-> n]
NumAbsent == [t |-> "absent", n |-> 0]
NumWrong == [t |-> "string", n |-> 0]

\* One entry of the "elements" array.
Elem(isObj, ty, la, lo, tg) ==
    [obj |-> isObj, type |-> ty, lat |-> la, lon |-> lo, tags |-> tg]


\* --------------------------------------------------------------- whitelist
\* struct PoiWhitelistEntry.
PoiWhitelistEntry(k, v) == [key |-> k, value |-> v]

\* The entries main() can build: the key is non-empty (an entry with an
\* empty key is dropped), the value may be empty.
WlEntries ==
    { PoiWhitelistEntry("amenity", ""),
      PoiWhitelistEntry("shop", "bakery"),
      PoiWhitelistEntry("amenity", "cafe") }

Whitelists == SeqsUpTo(WlEntries, MaxWl)

\* ------------------------------------------------ raw elements of a response
ElemCatalog ==
    { Elem(TRUE, JStr("node"), NumField(481370004), NumField(115750004),
           TagsObj(Tags1("shop", JStr("bakery")))),
      Elem(TRUE, JStr("node"), NumField(481400000), NumField(115800000),
           TagsObj(Tags1("shop", JStr("Bakery")))),
      Elem(TRUE, JStr("node"), NumField(-337000000), NumField(1512000000),
           TagsObj(Tags2("amenity", JStr("cafe"), "name", JStr("Cafe X")))),
      Elem(TRUE, JStr("way"), NumAbsent, NumAbsent,
           TagsObj(Tags1("shop", JStr("bakery")))),
      Elem(TRUE, JStr("way"), NumWrong, NumWrong, TagsNotObj),
      Elem(TRUE, JStr("node"), NumAbsent, NumAbsent, TagsAbsent),
      Elem(TRUE, Absent, NumField(10), NumField(20),
           TagsObj(Tags1("shop", JStr("bakery")))),
      Elem(TRUE, JStr("node"), NumField(30), NumField(40),
           TagsObj(Tags1("amenity", JNum("5")))),
      Elem(TRUE, JStr("node"), NumField(50), NumField(60),
           TagsObj(Tags2("amenity", JStr("pub"), "shop", JNum("5")))),
      Elem(TRUE, JStr("node"), NumWrong, NumField(70),
           TagsObj(Tags1("shop", JStr("bakery")))),
      Elem(TRUE, JStr("node"), NumField(80), NumField(90), TagsNotObj),
      Elem(TRUE, JNum("1"), NumField(1), NumField(2), TagsAbsent),
      Elem(FALSE, Absent, NumAbsent, NumAbsent, TagsAbsent) }

ElementSeqs == SeqsUpTo(ElemCatalog, MaxElems)

\* ------------------------------------------------- nlohmann::json accessors
\* basic_json::value(key, const char* default) on an element: the default
\* when the member is missing, the string when it is one, type_error
\* otherwise (306 when the element is no object, 302 when the member is no
\* string).
ValueString(obj, field, default) ==
    IF ~obj.obj THEN [ok |-> FALSE, s |-> ""]
    ELSE IF field.t = "absent" THEN [ok |-> TRUE, s |-> default]
    ELSE IF field.t = "string" THEN [ok |-> TRUE, s |-> field.s]
    ELSE [ok |-> FALSE, s |-> ""]

\* basic_json::value(key, double default).
ValueDouble(obj, field, default) ==
    IF ~obj.obj THEN [ok |-> FALSE, n |-> 0]
    ELSE IF field.t = "absent" THEN [ok |-> TRUE, n |-> default]
    ELSE IF field.t = "number" THEN [ok |-> TRUE, n |-> field.n]
    ELSE [ok |-> FALSE, n |-> 0]

\* obj.value("tags", json::object()): the member as it is, of whatever
\* type, or an empty object.
ValueTags(obj) ==
    IF obj.tags.t = "absent" THEN TagsObj(NoTags) ELSE obj.tags

\* basic_json::contains(key): false on anything that is no object.
TagsContains(tags, key) == tags.t = "object" /\ tags.m[key].t # "absent"

\* ---------------------------------------------------- buildResultJson_
\* The test of one whitelist entry against the value of its key's tag.
EntryMatches_NoWildcard(w, val) == val = w.value

EntryMatches(w, val) == w.value = "" \/ val = w.value

\* The loop over the whitelist: the first matching entry accepts and
\* breaks.  `std::string val = tags[w.key]` throws type_error 302 when
\* the tag's value is no string, before the entry's value is looked at.
RECURSIVE AcceptLoop(_, _, _)
AcceptLoop(whitelist, j, tags) ==
    IF j > Len(whitelist) THEN "reject"
    ELSE LET w == whitelist[j] IN
         IF TagsContains(tags, w.key)
         THEN IF tags.m[w.key].t # "string" THEN "throw"
              ELSE IF EntryMatches(w, tags.m[w.key].s) THEN "accept"
              ELSE AcceptLoop(whitelist, j + 1, tags)
         ELSE AcceptLoop(whitelist, j + 1, tags)

\* bool accepted = whitelist.empty(); if (!accepted) { the loop }.
Accepted(whitelist, tags) ==
    IF Len(whitelist) = 0 THEN "accept" ELSE AcceptLoop(whitelist, 1, tags)

\* The POI pushed for an accepted node.
MakePoi(lat, lon, tags) ==
    [lat |-> lat, lon |-> lon,
     name |-> IF TagsContains(tags, "name") THEN tags.m["name"] ELSE JNull,
     tags |-> tags]

ThrownInLoop == [status |-> "throw", pois |-> <<>>]

\* Whether the loop skips an element of this type.
SkipsType(ty) == ty # "node"

\* The loop over the elements, from element i on, poisArray so far.
RECURSIVE PoisLoop(_, _, _, _)
PoisLoop(whitelist, elements, i, poisArray) ==
    IF i > Len(elements) THEN [status |-> "ok", pois |-> poisArray]
    ELSE LET obj == elements[i]
             ty == ValueString(obj, obj.type, "")
             lat == ValueDouble(obj, obj.lat, 0)
             lon == ValueDouble(obj, obj.lon, 0)
             tags == ValueTags(obj)
             acc == Accepted(whitelist, tags)
         IN  IF ~ty.ok THEN ThrownInLoop
             ELSE IF SkipsType(ty.s)
                  THEN PoisLoop(whitelist, elements, i + 1, poisArray)
             ELSE IF ~lat.ok \/ ~lon.ok THEN ThrownInLoop
             ELSE IF acc = "throw" THEN ThrownInLoop
             ELSE IF acc = "reject"
                  THEN PoisLoop(whitelist, elements, i + 1, poisArray)
             ELSE PoisLoop(whitelist, elements, i + 1,
                           Append(poisArray, MakePoi(lat.n, lon.n, tags)))

\* results["count"] = poisArray.size().
ResultCount_Mut(elements, poisArray) == Len(elements)

ResultCount(elements, poisArray) == Len(poisArray)

\* The document, or the exception that leaves the function.
BuildResultJson(whitelist, elements) ==
    LET r == PoisLoop(whitelist, elements, 1, <<>>) IN
    IF r.status = "throw"
    THEN [kind |-> "exception", err |-> "json type_error", text |-> "",
          count |-> 0, pois |-> <<>>]
    ELSE [kind |-> "doc", err |-> "", text |-> "",
          count |-> ResultCount(elements, r.pois), pois |-> r.pois]

\* ------------------------------------------------- results of the pipeline
\* std::expected<nlohmann::json, std::string>, or an exception on its way
\* out of the call chain.
NoResult ==
    [kind |-> "none", err |-> "", text |-> "", count |-> 0, pois |-> <<>>]

Unexpected(e, txt) ==
    [kind |-> "error", err |-> e, text |-> txt, count |-> 0, pois |-> <<>>]

Escaping(e) ==
    [kind |-> "exception", err |-> e, text |-> "", count |-> 0, pois |-> <<>>]

\* ------------------------------------------------------------ performRequest
\* The error performRequest returns instead of a body, "" when it returns
\* the body.
PerformRequestError(resp) ==
    IF resp.transport = "curl_failed" THEN "CURL request failed"
    ELSE IF resp.transport = "http_error" THEN "HTTP Error"
    ELSE ""

\* ------------------------------------------------------- buildOverpassQuery_
\* std::format("{:.6f}") of a coordinate held in units of 10^-7 degree: the
\* nearest value with six decimals, returned in units of 10^-6 degree.
Fmt6(x) == IF x >= 0 THEN (x + 5) \div 10 ELSE -((5 - x) \div 10)

\* "around:{radius},{lat:.6f},{lon:.6f}".
Center(lat, lon, radiusMeters) ==
    [radius |-> radiusMeters, lat |-> Fmt6(lat), lon |-> Fmt6(lon)]

\* node(center);   node(center)["key"];   node(center)["key"="value"];
ClauseAll(center) ==
    [stmt |-> "node", center |-> center, filter |-> "none",
     key |-> "", value |-> ""]
ClauseKey(center, k) ==
    [stmt |-> "node", center |-> center, filter |-> "key",
     key |-> k, value |-> ""]
ClauseKeyValue(center, k, v) ==
    [stmt |-> "node", center |-> center, filter |-> "key=value",
     key |-> k, value |-> v]

\* The clause of one whitelist entry.
EntryClause_AlwaysPinned(center, w) == ClauseKeyValue(center, w.key, w.value)

EntryClause(center, w) ==
    IF w.value = "" THEN ClauseKey(center, w.key)
    ELSE ClauseKeyValue(center, w.key, w.value)

\* The query: the union block "( ... )" between the settings and the output
\* statement, its clauses in the order they are appended.
BuildOverpassQuery(lat, lon, radiusMeters, whitelist) ==
    LET center == Center(lat, lon, radiusMeters) IN
    [settings |-> "[out:json][timeout:25];",
     union |-> IF Len(whitelist) = 0 THEN <<ClauseAll(center)>>
               ELSE [i \in 1..Len(whitelist) |-> EntryClause(center, whitelist[i])],
     out |-> "out center;"]

NoQuery == [settings |-> "", union |-> <<>>, out |-> ""]

\* ------------------------------------------------------------ geocodeAddress_
\* std::stod on the texts the model draws: the value in units of 10^-7
\* degree, or invalid_argument.
Stod(s) ==
    CASE s = "0" -> [ok |-> TRUE, n |-> 0]
      [] s = "0.0" -> [ok |-> TRUE, n |-> 0]
      [] s = "-0.0" -> [ok |-> TRUE, n |-> 0]
      [] s = "48.1370004" -> [ok |-> TRUE, n |-> 481370004]
      [] OTHER -> [ok |-> FALSE, n |-> 0]

\* The "lat" / "lon" member of a geocoding candidate.
GeoFields ==
    { Absent, JStr("0"), JStr("-0.0"), JStr("48.1370004"), JStr("abc"),
      JNum("48.1") }

Candidate(isObj, la, lo) == [obj |-> isObj, lat |-> la, lon |-> lo]

GeoCandidates ==
    { Candidate(TRUE, la, lo) : la \in GeoFields, lo \in GeoFields }
        \cup { Candidate(FALSE, Absent, Absent) }

GeoResp(tr, kind, first) == [transport |-> tr, kind |-> kind, first |-> first]

NoCandidate == Candidate(FALSE, Absent, Absent)

NoGeoResp == GeoResp("none", "none", NoCandidate)

\* What the geocoding request can come back with: a transport failure, a
\* body that is no JSON, JSON that is no array, an empty array, an array
\* whose first item is a candidate.
GeoResponses ==
    { GeoResp("curl_failed", "none", NoCandidate),
      GeoResp("http_error", "none", NoCandidate),
      GeoResp("ok", "not_json", NoCandidate),
      GeoResp("ok", "object", NoCandidate),
      GeoResp("ok", "empty_array", NoCandidate) }
        \cup { GeoResp("ok", "array", c) : c \in GeoCandidates }

Coords(la, lo) == [ok |-> TRUE, err |-> "", lat |-> la, lon |-> lo]
CoordsError(e) == [ok |-> FALSE, err |-> e, lat |-> 0, lon |-> 0]
NoCoords == CoordsError("")

\* The test for the placeholder result.
IsPlaceholder_Unchecked(lat, lon) == FALSE

IsPlaceholder(lat, lon) == lat = 0 /\ lon = 0

GeocodeAddress(resp) ==
    IF PerformRequestError(resp) # "" THEN CoordsError(PerformRequestError(resp))
    ELSE IF resp.kind = "not_json" THEN CoordsError("JSON parse error")
    ELSE IF resp.kind \notin {"array", "empty_array"}
         THEN CoordsError("Invalid geocoding response: Not an array")
    ELSE IF resp.kind = "empty_array"
         THEN CoordsError("No geocoding result for address")
    ELSE LET obj == resp.first
             latText == ValueString(obj, obj.lat, "0.0")
             lonText == ValueString(obj, obj.lon, "0.0")
             lat == Stod(latText.s)
             lon == Stod(lonText.s)
         IN  IF ~latText.ok \/ ~lat.ok \/ ~lonText.ok \/ ~lon.ok
             THEN CoordsError("Error parsing coordinates")
             ELSE IF IsPlaceholder(lat.n, lon.n)
                  THEN CoordsError("Invalid coordinates in geocoding response")
             ELSE Coords(lat.n, lon.n)

\* -------------------------------------------------------------- queryOverpass_
OvResp(tr, kind, top, html, remark, hasEl, els) ==
    [transport |-> tr, kind |-> kind, top |-> top, html |-> html,
     remark |-> remark, hasElements |-> hasEl, elements |-> els]

NoOvResp == OvResp("none", "none", "none", FALSE, Absent, FALSE, <<>>)

\* What the Overpass request can come back with.  kind: "markup" is an HTML
\* document (no JSON, holds "<html"), "text" any other body that is no
\* JSON, "json" a JSON value.  top: the type of the JSON value.  html:
\* whether the body holds the substring "<html" (inside a JSON string when
\* the body is JSON).
OvResponses ==
    { OvResp("curl_failed", "none", "none", FALSE, Absent, FALSE, <<>>),
      OvResp("http_error", "none", "none", FALSE, Absent, FALSE, <<>>),
      OvResp("ok", "markup", "none", TRUE, Absent, FALSE, <<>>),
      OvResp("ok", "text", "none", FALSE, Absent, FALSE, <<>>) }
        \cup { OvResp("ok", "json", top, h, Absent, FALSE, <<>>) :
                 top \in {"array", "string"}, h \in BOOLEAN }
        \cup { OvResp("ok", "json", "object", h, r, FALSE, <<>>) :
                 h \in BOOLEAN,
                 r \in {Absent, JStr("runtime error: timeout"), JNum("42")} }
        \cup { OvResp("ok", "json", "object", FALSE,
                      JStr("runtime error: timeout"), TRUE, <<>>) }
        \cup { OvResp("ok", "json", "object", FALSE, Absent, TRUE, els) :
                 els \in ElementSeqs }

\* json.contains(key) on the parsed response.
JsonContainsRemark(resp) == resp.top = "object" /\ resp.remark.t # "absent"
JsonContainsElements(resp) == resp.top = "object" /\ resp.hasElements

\* Whether the body of the response is looked at as a possible HTML page.
\* The body has been parsed as JSON by then.
LooksLikeHtml(resp) == resp.html

\* Lines 167-185: parse, the remark test, the shape test, the normalizer.
ParseOverpass(whitelist, resp) ==
    IF resp.kind # "json" THEN Unexpected("JSON parse error", "")
    ELSE IF JsonContainsRemark(resp) /\ ~JsonContainsElements(resp)
         THEN IF resp.remark.t = "string"
              THEN Unexpected("Overpass API Error", resp.remark.s)
              ELSE Escaping("json type_error")
    ELSE IF resp.top # "object" \/ ~JsonContainsElements(resp)
         THEN IF LooksLikeHtml(resp)
              THEN Unexpected("Overpass API returned HTML error (server might be busy)", "")
              ELSE Unexpected("Invalid Overpass JSON response", "")
    ELSE BuildResultJson(whitelist, resp.elements)

\* Whether ParseOverpass reaches the call of buildResultJson_.
CallsNormalizer(resp) ==
    /\ resp.kind = "json"
    /\ resp.top = "object"
    /\ JsonContainsElements(resp)

\* ----------------------------------------------------------------- the run
VARIABLES
    pc,             \* where the invocation stands
    hasLatLon,      \* main: --lat and --lon were given
    hasAddr,        \* main: --address was given
    cliLat, cliLon, \* main: lat, lon (0.0 unless given)
    radius,         \* main: radius
    whitelist,      \* main: the parsed whitelist
    geoResp,        \* geocodeAddress_: what its request came back with,
                    \* held until queryByAddress has looked at the outcome
    coords,         \* queryByAddress: the value geocodeAddress_ returned
    lat, lon,       \* queryOverpass_: the center it was called with
    query,          \* queryOverpass_: the query it posted
    ovResp,         \* queryOverpass_: what its request came back with,
                    \* held until main has the client's result
    result,         \* main: the value the client returned
    output,         \* main: what was printed, and the exit status
    geocodeCalls,   \* requests sent to the geocoding service
    overpassCalls,  \* requests sent to the area-search service
    log             \* the calls and returns so far, in order

vars ==
    << pc, hasLatLon, hasAddr, cliLat, cliLon, radius, whitelist, geoResp,
       coords, lat, lon, query, ovResp, result, output, geocodeCalls,
       overpassCalls, log >>

\* int radius = 100000.
DefaultRadius == 100000

\* The radii a run is given: the default, and one passed with --radius.
CliRadii == { DefaultRadius, 250 }

\* The coordinates a caller passes with --lat/--lon.
CliPoints == { <<0, 0>>, <<481370004, 115750004>> }

NoOutput == [stream |-> "none", exit |-> "none"]

Init ==
    /\ pc = "main"
    /\ hasLatLon \in BOOLEAN
    /\ hasAddr \in BOOLEAN
    /\ \E p \in CliPoints :
          /\ cliLat = (IF hasLatLon THEN p[1] ELSE 0)
          /\ cliLon = (IF hasLatLon THEN p[2] ELSE 0)
    /\ radius \in CliRadii
    /\ whitelist \in Whitelists
    /\ geoResp = NoGeoResp
    /\ coords = NoCoords
    /\ lat = 0
    /\ lon = 0
    /\ query = NoQuery
    /\ ovResp = NoOvResp
    /\ result = NoResult
    /\ output = NoOutput
    /\ geocodeCalls = 0
    /\ overpassCalls = 0
    /\ log = <<>>

\* main, lines 100-104: the address is geocoded only when no coordinates
\* were given.
InputIsAddress_AnyAddress(ll, ad) == ad

InputIsAddress(ll, ad) == ~ll /\ ad

\* main, lines 70-73: neither coordinates nor an address.
MainUsageError ==
    /\ pc = "main"
    /\ ~hasLatLon /\ ~hasAddr
    /\ output' = [stream |-> "stderr", exit |-> "1"]
    /\ pc' = "exit"
    /\ UNCHANGED << hasLatLon, hasAddr, cliLat, cliLon, radius, whitelist,
                    geoResp, coords, lat, lon, query, ovResp, result,
                    geocodeCalls, overpassCalls, log >>

\* main -> queryByCoordinates: queryOverpass_ is entered with the given
\* point.
QueryByCoordinates ==
    /\ pc = "main"
    /\ hasLatLon \/ hasAddr
    /\ ~InputIsAddress(hasLatLon, hasAddr)
    /\ lat' = cliLat
    /\ lon' = cliLon
    /\ pc' = "overpass_build"
    /\ UNCHANGED << hasLatLon, hasAddr, cliLat, cliLon, radius, whitelist,
                    geoResp, coords, query, ovResp, result, output,
                    geocodeCalls, overpassCalls, log >>

\* main -> queryByAddress -> geocodeAddress_, up to the request being sent.
QueryByAddress ==
    /\ pc = "main"
    /\ hasLatLon \/ hasAddr
    /\ InputIsAddress(hasLatLon, hasAddr)
    /\ geocodeCalls' = geocodeCalls + 1
    /\ log' = Append(log, "geocode_call")
    /\ pc' = "geocode_wait"
    /\ UNCHANGED << hasLatLon, hasAddr, cliLat, cliLon, radius, whitelist,
                    geoResp, coords, lat, lon, query, ovResp, result, output,
                    overpassCalls >>

\* geocodeAddress_, from the return of performRequest to its own return.
GeocodeReturn ==
    /\ pc = "geocode_wait"
    /\ \E r \in GeoResponses :
          /\ geoResp' = r
          /\ coords' = GeocodeAddress(r)
    /\ log' = Append(log, "geocode_return")
    /\ pc' = "geocoded"
    /\ UNCHANGED << hasLatLon, hasAddr, cliLat, cliLon, radius, whitelist,
                    lat, lon, query, ovResp, result, output, geocodeCalls,
                    overpassCalls >>

\* queryByAddress, line 103: if (!coords).
GeocodeFailed_Ignored(c) == FALSE

GeocodeFailed(c) == ~c.ok

\* queryByAddress, lines 103-110: return the error, or enter queryOverpass_
\* with the resolved point.  The geocoding response is gone by then.
QueryByAddressContinue ==
    /\ pc = "geocoded"
    /\ geoResp' = NoGeoResp
    /\ IF GeocodeFailed(coords)
       THEN /\ result' = Unexpected(coords.err, "")
            /\ pc' = "returned"
            /\ UNCHANGED << lat, lon >>
       ELSE /\ lat' = coords.lat
            /\ lon' = coords.lon
            /\ pc' = "overpass_build"
            /\ UNCHANGED result
    /\ UNCHANGED << hasLatLon, hasAddr, cliLat, cliLon, radius, whitelist,
                    coords, query, ovResp, output, geocodeCalls,
                    overpassCalls, log >>

\* queryOverpass_, lines 158-164: build the query and send the request.
QueryOverpassSend ==
    /\ pc = "overpass_build"
    /\ query' = BuildOverpassQuery(lat, lon, radius, whitelist)
    /\ overpassCalls' = overpassCalls + 1
    /\ log' = Append(log, "overpass_call")
    /\ pc' = "overpass_wait"
    /\ UNCHANGED << hasLatLon, hasAddr, cliLat, cliLon, radius, whitelist,
                    geoResp, coords, lat, lon, ovResp, result, output,
                    geocodeCalls >>

\* queryOverpass_, lines 164-165: the request comes back; a transport error
\* is returned as it is.
QueryOverpassReturn ==
    /\ pc = "overpass_wait"
    /\ \E r \in OvResponses :
          /\ ovResp' = r
          /\ IF PerformRequestError(r) # ""
             THEN /\ result' = Unexpected(PerformRequestError(r), "")
                  /\ pc' = "returned"
             ELSE /\ pc' = "overpass_parse"
                  /\ UNCHANGED result
    /\ log' = Append(log, "overpass_return")
    /\ UNCHANGED << hasLatLon, hasAddr, cliLat, cliLon, radius, whitelist,
                    geoResp, coords, lat, lon, query, output, geocodeCalls,
                    overpassCalls >>

\* queryOverpass_, lines 167-185: parse the body, and normalize it.
QueryOverpassParse ==
    /\ pc = "overpass_parse"
    /\ result' = ParseOverpass(whitelist, ovResp)
    /\ log' = IF CallsNormalizer(ovResp) THEN Append(log, "normalize") ELSE log
    /\ pc' = "returned"
    /\ UNCHANGED << hasLatLon, hasAddr, cliLat, cliLon, radius, whitelist,
                    geoResp, coords, lat, lon, query, ovResp, output,
                    geocodeCalls, overpassCalls >>

\* main, lines 106-118: print the document, or the error document; an
\* exception that reached main ends the process in std::terminate.  The
\* client's response buffer is gone by then.
MainOutput ==
    /\ pc = "returned"
    /\ ovResp' = NoOvResp
    /\ output' = IF result.kind = "doc" THEN [stream |-> "stdout", exit |-> "0"]
                 ELSE IF result.kind = "error"
                      THEN [stream |-> "stderr", exit |-> "1"]
                 ELSE [stream |-> "none", exit |-> "terminate"]
    /\ pc' = "exit"
    /\ UNCHANGED << hasLatLon, hasAddr, cliLat, cliLon, radius, whitelist,
                    geoResp, coords, lat, lon, query, result,
                    geocodeCalls, overpassCalls, log >>

Next ==
    \/ MainUsageError
    \/ QueryByCoordinates
    \/ QueryByAddress
    \/ GeocodeReturn
    \/ QueryByAddressContinue
    \/ QueryOverpassSend
    \/ QueryOverpassReturn
    \/ QueryOverpassParse
    \/ MainOutput

Spec == Init /\ [][Next]_vars

\* ------------------------------------------------ vocabulary of the claims
\* The acceptance rule as the specification words it, on the tags of a raw
\* element: the key is among the tags, and the entry's value is empty or
\* equals the tag's value.
RuleMatches(w, e) ==
    /\ e.tags.t = "object"
    /\ e.tags.m[w.key].t # "absent"
    /\ \/ w.value = ""
       \/ e.tags.m[w.key] = JStr(w.value)

RuleAccepts(wl, e) ==
    \/ Len(wl) = 0
    \/ \E i \in 1..Len(wl) : RuleMatches(wl[i], e)

\* An element whose type is exactly "node".
IsNode(e) == e.obj /\ e.type = JStr("node")

\* Tags that are a mapping from strings to strings, or are missing.
StringValuedTags(e) ==
    /\ e.tags.t \in {"object", "absent"}
    /\ \A k \in TagKeys : e.tags.m[k].t \in {"absent", "string"}

\* Every order of the entries of a whitelist.
Orders(wl) ==
    { [i \in 1..Len(wl) |-> wl[f[i]]] :
        f \in { g \in [1..Len(wl) -> 1..Len(wl)] :
                  \A a, b \in 1..Len(wl) : g[a] = g[b] => a = b } }

\* The elements of a sequence that satisfy a test, in their order.
RECURSIVE Picked(_, _)
Picked(els, wl) ==
    IF Len(els) = 0 THEN <<>>
    ELSE LET rest == Picked(Tail(els), wl) IN
         IF IsNode(Head(els)) /\ RuleAccepts(wl, Head(els))
         THEN <<Head(els)>> \o rest ELSE rest

\* The tags a POI of an element carries: the source tags, an empty object
\* for an element without tags.
SourceTags(e) == IF e.tags.t = "absent" THEN TagsObj(NoTags) ELSE e.tags

\* The client has returned, and the Overpass body was handed to the
\* normalizer.
Normalized == pc = "returned" /\ CallsNormalizer(ovResp)

C2_PoisAreTheAcceptedNodes ==
    Normalized =>
        /\ result.kind = "doc"
        /\ LET want == Picked(ovResp.elements, whitelist) IN
           /\ Len(result.pois) = Len(want)
           /\ \A i \in 1..Len(want) : result.pois[i].tags = SourceTags(want[i])

\* What the code does keep of C2: whenever a document is produced, its POIs
\* are the accepted nodes, in order, with their tags.
C2_WhenADocumentIsProduced ==
    (Normalized /\ result.kind = "doc") =>
        LET want == Picked(ovResp.elements, whitelist) IN
        /\ Len(result.pois) = Len(want)
        /\ \A i \in 1..Len(want) : result.pois[i].tags = SourceTags(want[i])

\* --------------------------------------------------------------------- C3
\* The address was looked up and geocodeAddress_ returned an error.
LocatorFailed ==
    /\ pc \notin {"main", "geocode_wait"}
    /\ geocodeCalls = 1
    /\ ~coords.ok

\* C3: when the input is an address and geocodeAddress_ fails, the client
\* returns that very error, no Overpass request is sent, the normalizer does
\* not run and no result document is produced or printed.
C3_LocatorFailureAborts ==
    LocatorFailed =>
        /\ pc \in {"geocoded", "returned", "exit"}
        /\ pc = "geocoded" => coords.err = GeocodeAddress(geoResp).err
        /\ coords.err # ""
        /\ overpassCalls = 0
        /\ \A i \in 1..Len(log) : log[i] \notin {"overpass_call", "normalize"}
        /\ query = NoQuery
        /\ result.kind # "doc"
        /\ pc # "geocoded" => result = Unexpected(coords.err, "")
        /\ pc = "exit" => output = [stream |-> "stderr", exit |-> "1"]

\* The run has ended after a lookup that found nothing.
C3_Witness ==
    /\ pc = "exit"
    /\ LocatorFailed
    /\ coords.err = "No geocoding result for address"
    /\ result = Unexpected("No geocoding result for address", "")

\* --------------------------------------------------------------------- C4
\* The Overpass body is a JSON object with a remark and without elements.
RemarkOnly ==
    /\ ovResp.transport = "ok"
    /\ ovResp.kind = "json"
    /\ ovResp.top = "object"
    /\ ovResp.remark.t # "absent"
    /\ ~ovResp.hasElements

\* C4: a response that is a JSON object with a remark field and no elements
\* field makes queryOverpass_ return the upstream-application error carrying
\* the remark, never a document.
C4_RemarkIsAnError ==
    (pc = "returned" /\ RemarkOnly) =>
        /\ result.kind = "error"
        /\ result.err = "Overpass API Error"
        /\ result.text = ovResp.remark.s

\* --------------------------------------------------------------------- C5
\* C5: a body that is an HTML document is reported as the "server might be
\* busy" error, not as a parse error and not as the generic error; a JSON
\* body without markup, without elements and without a remark is reported as
\* the generic malformed-response error.
C5_MarkupIsOverloaded ==
    (pc = "returned" /\ ovResp.transport = "ok") =>
        /\ ovResp.kind = "markup" =>
              result = Unexpected("Overpass API returned HTML error (server might be busy)", "")
        /\ (ovResp.kind = "json" /\ ~ovResp.html /\ ~ovResp.hasElements
                /\ ovResp.remark.t = "absent") =>
              result = Unexpected("Invalid Overpass JSON response", "")

\* --------------------------------------------------------------------- C6
\* C6: whatever the elements are, the normalizer returns a document: no
\* error, no exception, and the well-formed elements of a batch with a
\* malformed one are still in it.
C6_NormalizerNeverFails ==
    Normalized => result.kind = "doc"

\* --------------------------------------------------------------------- C7
\* C7: in every document the normalizer produces, results.count is the
\* number of entries of results.pois.
C7_CountIsLength ==
    result.kind = "doc" => result.count = Len(result.pois)

\* A document of one POI out of two elements, and the whitelist not empty.
C7_Witness ==
    /\ Normalized
    /\ result.kind = "doc"
    /\ Len(ovResp.elements) = 2
    /\ Len(whitelist) > 0
    /\ Len(result.pois) = 1

\* --------------------------------------------------------------------- C8
\* The query has been built.
QueryBuilt == pc \in {"overpass_wait", "overpass_parse", "returned", "exit"}
                 /\ overpassCalls = 1

ZeroTexts == {"0", "0.0", "-0.0"}

\* The first candidate of the geocoding response gives a latitude and a
\* longitude that both parse to zero.
BothParseToZero ==
    /\ geoResp.transport = "ok"
    /\ geoResp.kind = "array"
    /\ geoResp.first.obj
    /\ geoResp.first.lat.t = "string" /\ geoResp.first.lat.s \in ZeroTexts
    /\ geoResp.first.lon.t = "string" /\ geoResp.first.lon.s \in ZeroTexts

\* C9: a geocoding response whose first candidate's latitude and longitude
\* both parse to exactly zero is rejected with the invalid-coordinates error;
\* geocodeAddress_ never resolves to the point (0,0), and no Overpass query
\* for an address is centered there.
C9_ZeroZeroRejected ==
    /\ (pc = "geocoded" /\ BothParseToZero) =>
          coords = CoordsError("Invalid coordinates in geocoding response")
    /\ coords.ok => ~(coords.lat = 0 /\ coords.lon = 0)
    /\ (geocodeCalls = 1 /\ overpassCalls = 1) => ~(lat = 0 /\ lon = 0)

\* geocodeAddress_ has turned down the response [{"lat": "0", "lon": "-0.0"}].
C9_Witness ==
    /\ pc = "geocoded"
    /\ BothParseToZero
    /\ geoResp.first.lat.s = "0"
    /\ geoResp.first.lon.s = "-0.0"
    /\ coords = CoordsError("Invalid coordinates in geocoding response")

\* -------------------------------------------------------------------- C10
\* The two orders in which a run can call out.
AddressOrder ==
    << "geocode_call", "geocode_return", "overpass_call", "overpass_return",
       "normalize" >>
CoordinateOrder == << "overpass_call", "overpass_return", "normalize" >>

IsPrefix(s, t) == Len(s) <= Len(t) /\ \A i \in 1..Len(s) : s[i] = t[i]

\* The run has ended, and it was given an address or coordinates.
Finished == pc = "exit" /\ (hasLatLon \/ hasAddr)

\* C10 as claimed: every invocation makes exactly one geocode call when the
\* input is an address, none when it is coordinates, and exactly one
\* area-search call, in that order and before normalization.
C10_ExactlyOneCallEach ==
    /\ Finished =>
          /\ geocodeCalls = (IF ~hasLatLon /\ hasAddr THEN 1 ELSE 0)
          /\ overpassCalls = 1
    /\ IsPrefix(log, IF ~hasLatLon /\ hasAddr THEN AddressOrder
                     ELSE CoordinateOrder)

\* C10 as it holds: exactly one geocode call when the input is an address,
\* none when it is coordinates; exactly one area-search call unless the
\* geocode call failed, and none then; neither is repeated; the geocode call
\* returns before the area-search call is sent, which returns before
\* normalization.
C10_OneCallEachUnlessGeocodingFails ==
    /\ geocodeCalls <= 1
    /\ overpassCalls <= 1
    /\ Finished =>
          /\ geocodeCalls = (IF ~hasLatLon /\ hasAddr THEN 1 ELSE 0)
          /\ overpassCalls = (IF geocodeCalls = 1 /\ ~coords.ok THEN 0 ELSE 1)
    /\ IsPrefix(log, IF ~hasLatLon /\ hasAddr THEN AddressOrder
                     ELSE CoordinateOrder)

\* A run from an address to a printed document: five steps, in order.
C10_Witness ==
    /\ pc = "exit"
    /\ ~hasLatLon /\ hasAddr
    /\ log = AddressOrder
    /\ geocodeCalls = 1
    /\ overpassCalls = 1
    /\ output.stream = "stdout"

=============================================================================
